---------------------------- MODULE Spec2Model ----------------------------
(***************************************************************************)
(* AI-Butler: a Telegram bot (src/app.py) that relays messages to a ReAct  *)
(* agent with weather and news tools (src/tools), keeps one conversation   *)
(* memory per user and post-processes the agent's answer.                  *)
(*                                                                         *)
(* Text is modelled as a sequence of characters (one-character strings).   *)
(***************************************************************************)
EXTENDS Integers, Sequences, FiniteSets, TLC

(***************************************************************************)
(* Text helpers                                                            *)
(***************************************************************************)

\* str.isspace() restricted to the characters the model uses.
Whitespace == {" ", "\n", "\t"}

RECURSIVE Flatten(_)
\* ''.join(parts)
Flatten(parts) ==
    IF parts = <<>> THEN <<>> ELSE Head(parts) \o Flatten(Tail(parts))

RECURSIVE LStrip(_)
LStrip(s) ==
    IF s # <<>> /\ Head(s) \in Whitespace THEN LStrip(Tail(s)) ELSE s

RECURSIVE RStrip(_)
RStrip(s) ==
    IF s # <<>> /\ s[Len(s)] \in Whitespace
    THEN RStrip(SubSeq(s, 1, Len(s) - 1))
    ELSE s

\* str.strip()
Strip(s) == RStrip(LStrip(s))

\* s[i:i+len(pat)] == pat, 1-based
HasAt(s, i, pat) ==
    /\ i >= 1
    /\ i + Len(pat) - 1 <= Len(s)
    /\ \A k \in 1..Len(pat) : s[i + k - 1] = pat[k]

(***************************************************************************)
(* format_sarcastic_response (src/app.py:148-169)                          *)
(***************************************************************************)

OpenTag  == <<"<", "s", "a", "r", "c", "a", "s", "m", ">">>
CloseTag == <<"<", "/", "s", "a", "r", "c", "a", "s", "m", ">">>

\* the f-string prefix "\n\n(thought balloon) _" and suffix "_" of line 166
AsidePrefix == <<"\n", "\n", "(thought-balloon)", " ", "_">>
AsideSuffix == <<"_">>

\* What "." of the pattern matches: with re.DOTALL, every character,
\* the newline included.
Dot(c) == TRUE

\* Mutant of GroupEnd: a greedy group (.*) ends at the last closing tag.
GroupEndGreedy(s, from) ==
    LET ends == {j \in from..Len(s) :
                    /\ HasAt(s, j, CloseTag)
                    /\ \A k \in from..(j - 1) : Dot(s[k])}
    IN IF ends = {} THEN 0 ELSE CHOOSE j \in ends : \A k \in ends : k <= j

\* The lazy group (.*?) followed by </sarcasm>: the first position >= from
\* where the closing tag starts and every character before it is matched
\* by "."; 0 when there is none.
GroupEnd(s, from) ==
    LET ends == {j \in from..Len(s) :
                    /\ HasAt(s, j, CloseTag)
                    /\ \A k \in from..(j - 1) : Dot(s[k])}
    IN IF ends = {} THEN 0 ELSE CHOOSE j \in ends : \A k \in ends : j <= k

RECURSIVE SarcasmScan(_, _)
\* The regex engine's scan from position i: the non-overlapping matches of
\* sarcasm_pattern, left to right, each as <<start of the opening tag,
\* start of the closing tag>>.
SarcasmScan(s, i) ==
    IF i > Len(s) THEN <<>>
    ELSE IF HasAt(s, i, OpenTag) /\ GroupEnd(s, i + Len(OpenTag)) # 0
         THEN LET j == GroupEnd(s, i + Len(OpenTag))
              IN <<(<<i, j>>)>> \o SarcasmScan(s, j + Len(CloseTag))
         ELSE SarcasmScan(s, i + 1)

\* sarcasm_pattern.findall(response): the group of every match
SarcasmFindAll(s) ==
    LET ms == SarcasmScan(s, 1)
    IN [n \in 1..Len(ms) |->
            SubSeq(s, ms[n][1] + Len(OpenTag), ms[n][2] - 1)]

\* sarcasm_pattern.sub('', response): the text outside the matches
SarcasmSub(s) ==
    LET ms == SarcasmScan(s, 1)
        piece(n) ==
            SubSeq(s,
                   IF n = 1 THEN 1 ELSE ms[n - 1][2] + Len(CloseTag),
                   IF n = Len(ms) + 1 THEN Len(s) ELSE ms[n][1] - 1)
    IN Flatten([n \in 1..(Len(ms) + 1) |-> piece(n)])

\* f"\n\n(thought balloon) _{comment.strip()}_"
FormatComment(comment) == AsidePrefix \o Strip(comment) \o AsideSuffix

format_sarcastic_response(response) ==
    LET sarcasm_matches == SarcasmFindAll(response)
        clean_response  == Strip(SarcasmSub(response))
    IN IF sarcasm_matches # <<>>
       THEN clean_response \o
            Flatten([n \in 1..Len(sarcasm_matches) |->
                        FormatComment(sarcasm_matches[n])])
       ELSE clean_response

(***************************************************************************)
(* Tool providers (src/tools).  A call's result is                         *)
(*   [raised |-> whether an exception left the function,                   *)
(*    text   |-> the returned string,                                      *)
(*    requests |-> the HTTP requests it issued, in order].                 *)
(* A literal run of an f-string is one token of the text.                  *)
(* The outcome of a try block is [exc |-> "none" or the exception class,   *)
(* text |-> the value returned].                                           *)
(***************************************************************************)

Returned(text, reqs) == [raised |-> FALSE, text |-> text, requests |-> reqs]
Raised(reqs)         == [raised |-> TRUE, text |-> <<>>, requests |-> reqs]

TryReturn(text) == [exc |-> "none", text |-> text]
TryRaise(class) == [exc |-> class, text |-> <<>>]

\* requests.get(...), raise_for_status(), .json(): the exception each
\* transport outcome raises, "none" when a JSON body comes back
TransportExc(kind) ==
    CASE kind = "network_error" -> "ConnectionError"
      [] kind = "http_error"    -> "HTTPError"
      [] kind = "bad_json"      -> "JSONDecodeError"
      [] OTHER                  -> "none"

\* str(e): some exceptions carry no message
ExcMessage(class) ==
    IF class \in {"DDGSException", "ConnectionError"} THEN <<>> ELSE <<class>>

\* Mutant of ExceptionClasses: "except requests.exceptions.RequestException"
ExceptionClassesRequests == {"ConnectionError", "HTTPError"}

\* The classes "except Exception" catches: all that the tools can raise.
ExceptionClasses == {"ConnectionError", "HTTPError", "JSONDecodeError",
                     "KeyError", "IndexError", "AttributeError", "TypeError",
                     "DDGSException"}

\* --- weather_tool.py ----------------------------------------------------

GeoKinds == {"network_error", "http_error", "bad_json",
             "empty",        \* []
             "no_lat",       \* [{}]: data[0]['lat'] raises KeyError
             "zero",         \* a place on the equator or prime meridian
             "ok"}

\* A coordinate: None, or a number of degrees
NoCoord    == [isNone |-> TRUE, deg |-> 0]
Coord(deg) == [isNone |-> FALSE, deg |-> deg]

\* get_coordinates: <<lat, lon>>
get_coordinates(geo) ==
    IF TransportExc(geo) # "none" THEN <<NoCoord, NoCoord>>
    ELSE IF geo = "empty" THEN <<NoCoord, NoCoord>>
    ELSE IF geo = "no_lat" THEN <<NoCoord, NoCoord>>   \* KeyError, caught
    ELSE IF geo = "zero" THEN <<Coord(0), Coord(7)>>
    ELSE <<Coord(40), Coord(7)>>

\* "not x" for a coordinate
Falsy(x) == x.isNone \/ x.deg = 0

\* What os.environ.get gives for a key: None when the variable is unset,
\* the empty string when it is set to nothing, else the key
KeyValues == {"None", "", "key"}

\* Mutant of KeyMissing: only an unset variable counts ("is None").
KeyMissingIsNone(key) == key = "None"

\* "not OPEN_WEATHER_API_KEY", "not NEWS_API_KEY"
KeyMissing(key) == key = "None" \/ key = ""

WeatherUnavailable ==
    <<"Sorry, the weather service is not available at the moment. Confifure the API key and try again.">>

WeatherShapes == {"absent",      \* no 'weather' key: the default [{}]
                  "empty_list",  \* 'weather': []  -> IndexError
                  "no_desc",     \* 'weather': [{}]
                  "null_desc",   \* description null -> None.capitalize()
                  "ok"}

\* The current-conditions responses: a transport failure, a body that is
\* no JSON object, or an object with any of its fields absent.
WeatherBodies ==
    [kind : {"body"}, name : BOOLEAN, country : BOOLEAN,
     weather : WeatherShapes, temp : BOOLEAN, feels_like : BOOLEAN,
     humidity : BOOLEAN, wind : BOOLEAN]

WeatherResponses ==
    {[kind |-> k] : k \in {"network_error", "http_error", "bad_json",
                           "not_object"}}
    \cup WeatherBodies

\* lines 58-87 of get_weather: the formatting of a JSON body
WeatherInfo(location, wx) ==
    <<"Weather in ">> \o (IF wx.name THEN <<"Madrid">> ELSE location)
    \o (IF wx.country THEN <<", ", "ES">> ELSE <<>>)
    \o <<":\n* Condition: ">>
    \o (IF wx.weather = "ok" THEN <<"Cielo claro">> ELSE <<>>)
    \o <<"\n">>
    \o (IF wx.temp THEN <<"* Temperature: ", "21", "C\n">> ELSE <<>>)
    \o (IF wx.feels_like THEN <<"* Feels like: ", "20", "C\n">> ELSE <<>>)
    \o (IF wx.humidity THEN <<"* Humidity: ", "40", "%\n">> ELSE <<>>)
    \o (IF wx.wind THEN <<"* Wind speed: ", "3", " m/s">> ELSE <<>>)

\* the try block of get_weather, lines 44-87
WeatherTry(location, geo, wx) ==
    LET c == get_coordinates(geo)
    IN IF Falsy(c[1]) \/ Falsy(c[2])
       THEN TryReturn(<<"Could not find the location: ">> \o location)
       ELSE IF TransportExc(wx.kind) # "none"
            THEN TryRaise(TransportExc(wx.kind))
       ELSE IF wx.kind = "not_object" THEN TryRaise("AttributeError")
       ELSE IF wx.weather = "empty_list" THEN TryRaise("IndexError")
       ELSE IF wx.weather = "null_desc" THEN TryRaise("AttributeError")
       ELSE TryReturn(WeatherInfo(location, wx))

\* the requests get_weather issues once the key is there: the geocoding
\* lookup, then the conditions when coordinates came back
WeatherRequests(geo) ==
    LET c == get_coordinates(geo)
    IN IF Falsy(c[1]) \/ Falsy(c[2])
       THEN <<"geo/1.0/direct">>
       ELSE <<"geo/1.0/direct", "data/2.5/weather">>

get_weather(key, location, geo, wx) ==
    IF KeyMissing(key) THEN Returned(WeatherUnavailable, <<>>)
    ELSE LET t == WeatherTry(location, geo, wx)
             reqs == WeatherRequests(geo)
         IN IF t.exc = "none" THEN Returned(t.text, reqs)
            ELSE IF t.exc = "HTTPError"
                 THEN Returned(<<"Error getting the weather at ">> \o location
                               \o <<". Could not connect to the weather service.">>,
                               reqs)
            ELSE IF t.exc \in ExceptionClasses
                 THEN Returned(<<"Error getting the weather at ">> \o location
                               \o <<".">>, reqs)
            ELSE Raised(reqs)

\* --- news_tool.py -------------------------------------------------------

NewsUnavailable ==
    <<"Sorry, the news service is not available at the moment. Configure the API key and try again.">>

Digits == <<"1", "2", "3", "4", "5", "6", "7", "8", "9">>

ArticleShapes == {"full",         \* every field present
                  "bare",         \* {}: every default applies
                  "null_source"}  \* 'source': null -> None.get raises

\* line 70: one formatted item
NewsItem(idx, shape) ==
    <<Digits[idx], ". ">>
    \o (IF shape = "full" THEN <<"Titular">> ELSE <<"Sin titulo">>)
    \o <<" (">>
    \o (IF shape = "full" THEN <<"El Diario">> ELSE <<"Fuente desconocida">>)
    \o <<")\n   ">>
    \o (IF shape = "full" THEN <<"Resumen">> ELSE <<"Sin descripcion">>)
    \o <<"\n   ">>
    \o (IF shape = "full" THEN <<"https://n/1">> ELSE <<>>)
    \o <<"\n">>

RECURSIVE JoinLines(_)
\* "\n".join(parts)
JoinLines(parts) ==
    IF parts = <<>> THEN <<>>
    ELSE IF Len(parts) = 1 THEN parts[1]
    ELSE parts[1] \o <<"\n">> \o JoinLines(Tail(parts))

\* the try block of get_news, lines 36-73.  total is 'totalResults'
\* (-1 when the key is missing), articles the shapes of 'articles'.
NewsTry(query, resp) ==
    IF TransportExc(resp.kind) # "none" THEN TryRaise(TransportExc(resp.kind))
    ELSE IF resp.kind = "not_object" THEN TryRaise("AttributeError")
    ELSE IF resp.total = -1 \/ resp.total = 0
         THEN TryReturn(<<"No se encontraron noticias para '">> \o query
                        \o <<"'">>)
    ELSE IF \E n \in 1..Len(resp.articles) : resp.articles[n] = "null_source"
         THEN TryRaise("AttributeError")
    ELSE TryReturn(JoinLines(
            <<(<<"Ultimas noticias:">>)>> \o
            [n \in 1..Len(resp.articles) |-> NewsItem(n, resp.articles[n])]))

\* lines 37-53: the endpoint the one request goes to
NewsRequests(category, country) ==
    IF category # "None" \/ country # "None"
    THEN <<"v2/top-headlines">>
    ELSE <<"v2/everything">>

get_news(key, query, category, country, resp) ==
    IF KeyMissing(key) THEN Returned(NewsUnavailable, <<>>)
    ELSE LET t == NewsTry(query, resp)
             reqs == NewsRequests(category, country)
         IN IF t.exc = "none" THEN Returned(t.text, reqs)
            ELSE IF t.exc = "HTTPError"
                 THEN Returned(<<"Error obteniendo noticias. No se pudo conectar al servicio de noticias.">>,
                               reqs)
            ELSE IF t.exc \in ExceptionClasses
                 THEN Returned(<<"Error obteniendo noticias: ">>
                               \o ExcMessage(t.exc), reqs)
            ELSE Raised(reqs)

\* --- internet_tool.py ---------------------------------------------------

ResultShapes == {"full", "bare"}

\* line 237: one formatted result
SearchItem(idx, shape) ==
    <<Digits[idx], ". ">>
    \o (IF shape = "full" THEN <<"Titulo">> ELSE <<"Sin titulo">>)
    \o <<"\n   ">>
    \o (IF shape = "full" THEN <<"Cuerpo">>
        ELSE <<"No hay descripcion disponible">>)
    \o <<"\n   ">>
    \o (IF shape = "full" THEN <<"https://r/1">> ELSE <<>>)
    \o <<"\n">>

\* the try block of search_internet, lines 23-39.  outcome is
\* [kind |-> "error"] when DDGS raises, or [kind |-> "results", results].
SearchTry(query, outcome) ==
    IF outcome.kind = "error" THEN TryRaise("DDGSException")
    ELSE IF outcome.results = <<>>
         THEN TryReturn(<<"No se encontraron resultados para la busqueda: '">>
                        \o query \o <<"'">>)
    ELSE TryReturn(JoinLines(
            <<(<<"Resultados de busqueda para '">> \o query \o <<"':">>)>> \o
            [n \in 1..Len(outcome.results) |->
                SearchItem(n, outcome.results[n])]))

search_internet(query, outcome) ==
    LET t == SearchTry(query, outcome)
    IN IF t.exc = "none" THEN Returned(t.text, <<"ddgs.text">>)
       ELSE IF t.exc \in ExceptionClasses
            THEN Returned(<<"Error realizando la busqueda en Internet: ">>
                          \o ExcMessage(t.exc), <<"ddgs.text">>)
       ELSE Raised(<<"ddgs.text">>)

RECURSIVE SplitDouble(_, _)
\* line.split("  "): the phrases between double spaces; cur is the phrase
\* being read
SplitDouble(line, cur) ==
    IF line = <<>> THEN <<cur>>
    ELSE IF Len(line) >= 2 /\ line[1] = " " /\ line[2] = " "
         THEN <<cur>> \o SplitDouble(SubSeq(line, 3, Len(line)), <<>>)
    ELSE SplitDouble(Tail(line), Append(cur, Head(line)))

RECURSIVE Chunks(_)
\* lines 77-81: strip every line, split it on double spaces, strip every
\* phrase and drop the blank ones
Chunks(lines) ==
    IF lines = <<>> THEN <<>>
    ELSE LET phrases == SplitDouble(Strip(Head(lines)), <<>>)
             kept == SelectSeq([n \in 1..Len(phrases) |-> Strip(phrases[n])],
                               LAMBDA c : c # <<>>)
         IN kept \o Chunks(Tail(lines))

\* text[:max_length] for max_length >= 0
Truncate(text, max_length) ==
    SubSeq(text, 1, IF max_length < Len(text) THEN max_length ELSE Len(text))

\* the try block of get_webpage_content, lines 59-87.  outcome is
\* [kind |-> a transport failure] or [kind |-> "page", lines |-> the lines
\* of soup.get_text()].
WebpageTry(url, max_length, outcome) ==
    IF outcome.kind # "page" THEN TryRaise(TransportExc(outcome.kind))
    ELSE LET text == JoinLines(Chunks(outcome.lines))
             cut == IF Len(text) > max_length
                    THEN Truncate(text, max_length)
                         \o <<"... (contenido truncado)">>
                    ELSE text
         IN TryReturn(<<"Contenido de ">> \o url \o <<":\n\n">> \o cut)

get_webpage_content(url, max_length, outcome) ==
    LET t == WebpageTry(url, max_length, outcome)
    IN IF t.exc = "none" THEN Returned(t.text, <<"requests.get(url)">>)
       ELSE IF t.exc \in ExceptionClasses
            THEN Returned(<<"Error obteniendo el contenido de la pagina web: ">>
                          \o ExcMessage(t.exc), <<"requests.get(url)">>)
       ELSE Raised(<<"requests.get(url)">>)

(***************************************************************************)
(* State                                                                   *)
(***************************************************************************)

VARIABLES
    env,            \* the API keys read at import: OPEN_WEATHER_API_KEY,
                    \* NEWS_API_KEY
    user_memories,  \* the global dict: user id -> the memory object's id
    heap,           \* memory object's id -> chat_memory.messages
    tg,             \* the Telegram thread: the handler it runs, its locals
    cleared,        \* history: <<user, how the /reset ended>> for the users
                    \* whose /reset completed and for whom
                    \* get_or_create_memory has not returned since
    wiped,          \* history: users for whom get_or_create_memory has not
                    \* returned since the last run of the reset endpoint
    nMessages,      \* history: the text messages dispatched so far
    nCommands,      \* history: the commands dispatched so far
    call,           \* one direct call of a tool function
    fmt             \* one direct application of format_sarcastic_response

vars == <<env, user_memories, heap, tg, cleared, wiped, nMessages, nCommands,
          call, fmt>>

(***************************************************************************)
(* Bounds and input sets                                                   *)
(***************************************************************************)

NumUsers    == 2
MaxMessages == 3
MaxCommands == 1
MaxChunks   == 6
MaxArticles == 2
MaxLines    == 2

Users == 1..NumUsers

\* the message texts users send
Texts == {<<"hola">>, <<"tiempo?">>}

\* what the model may give as its final answer: nothing, a plain answer,
\* an answer with an aside
AgentOutputs ==
    {<<>>,
     <<"s", "i">>,
     <<"s", "i", " ">> \o OpenTag \o <<"j", "a">> \o CloseTag}

(***************************************************************************)
(* Memory store (src/app.py:53, 70-77) and chat history                    *)
(***************************************************************************)

HumanTurn(text) == [role |-> "human", content |-> text]
AITurn(text)    == [role |-> "ai", content |-> text]

\* Mutant of add_user_message: the human turn is not stored.
add_user_message_lost(messages, text) == messages

\* memory.chat_memory.add_user_message(message_text), line 199
add_user_message(messages, text) == Append(messages, HumanTurn(text))

\* Mutant of add_ai_message: the assistant turn is not stored.
add_ai_message_lost(messages, text) == messages

\* memory.chat_memory.add_ai_message(response), line 200
add_ai_message(messages, text) == Append(messages, AITurn(text))

\* lines 178-181: the history as the prompt's text
ChatHistory(messages) ==
    JoinLines([n \in 1..Len(messages) |->
                  (IF messages[n].role = "human" THEN <<"Human: ">>
                   ELSE <<"AI: ">>) \o messages[n].content])

\* ConversationBufferMemory(return_messages=True): a new object's id
NewObject == CHOOSE o \in 1..(Cardinality(DOMAIN heap) + 1) : o \notin DOMAIN heap

Range(f) == {f[x] : x \in DOMAIN f}

\* Reference counting: the objects neither the dict nor the running
\* handler refers to are freed.
Collect(memories, objects, held) ==
    [o \in (DOMAIN objects) \cap (Range(memories) \cup held) |-> objects[o]]

\* The history get_or_create_memory(u) would return now: the stored
\* one, or that of a new memory.
HistoryOf(u) ==
    IF u \in DOMAIN user_memories THEN heap[user_memories[u]] ELSE <<>>

\* Mutant of ResetAll: the histories are emptied in place and stay stored.
ResetAllInPlace(memories, objects) ==
    <<memories, [o \in DOMAIN objects |-> <<>>]>>

\* user_memories = {} (line 259): the name is bound to a new dict; the
\* memory objects are untouched.  <<the dict, the objects>> afterwards.
ResetAll(memories, objects) == <<<<>>, objects>>

\* Mutant of DeleteMemory: every entry is deleted.
DeleteMemoryAll(memories, u) == <<>>

\* del user_memories[user_id] (line 221)
DeleteMemory(memories, u) ==
    [v \in (DOMAIN memories) \ {u} |-> memories[v]]

(***************************************************************************)
(* Exceptions                                                              *)
(***************************************************************************)

\* What the pipeline's try block can raise besides the tools' classes.
PipelineExceptions == {"KeyError", "LLMError"}

\* Mutant of CaughtByExcept: only KeyError is caught.
CaughtKeyErrorOnly(class) == class = "KeyError"

\* "except Exception" of process_message, line 207
CaughtByExcept(class) == class \in ExceptionClasses \cup PipelineExceptions

Apology == <<"Sorry, there was an error processing your request.">>

(***************************************************************************)
(* Agent executor (src/app.py:133-140, 187-195)                            *)
(***************************************************************************)

max_iterations == 3

\* tools (lines 66-68): the catalog holds get_weather and get_news
Catalog == {"get_weather", "get_news"}

\* early_stopping_method="force": the output of a forced stop
ForcedStopOutput == <<"Agent stopped due to iteration limit or time limit.">>

\* Mutant of handle_parsing_errors: output that cannot be parsed is fatal.
handle_parsing_errors_off == FALSE

\* AgentExecutor(handle_parsing_errors=True), line 137
handle_parsing_errors == TRUE

\* handle_parsing_errors=True: the observation fed back
ParseErrorObservation == <<"Invalid or incomplete response">>

\* the observation for a tool that is not in the catalog
InvalidToolObservation ==
    <<"is not a valid tool, try one of [get_weather, get_news].">>

\* Mutant of ShouldContinue: the iteration cap is one too high.
ShouldContinueOffByOne(iterations) == iterations <= max_iterations

\* AgentExecutor._should_continue
ShouldContinue(iterations) == iterations < max_iterations

\* The provider outcomes a tool call meets inside the pipeline.
PipelineGeo  == {"ok"}
PipelineWx   == {[kind |-> "body", name |-> TRUE, country |-> TRUE,
                  weather |-> "ok", temp |-> TRUE, feels_like |-> TRUE,
                  humidity |-> TRUE, wind |-> TRUE]}
PipelineNews == {[kind |-> "body", total |-> 0, articles |-> <<>>]}

\* The tool function run with the agent's input
RunTool(tool, input, geo, wx, news) ==
    IF tool = "get_weather" THEN get_weather(env.weather, input, geo, wx)
    ELSE get_news(env.news, input, "None", "None", news)

(***************************************************************************)
(* Telegram thread.  Updates are processed one at a time; between any two  *)
(* steps of a handler the Flask thread may run.  Of a handler's locals,    *)
(* exc is the exception the try block of process_message raised, escaped   *)
(* the exception that left the handler, pmRaised whether it left           *)
(* process_message.                                                        *)
(***************************************************************************)

TgIdle == [pc |-> "idle", kind |-> "none", user |-> 0, text |-> <<>>,
           memory |-> 0, iterations |-> 0, steps |-> <<>>,
           chat_history |-> <<>>, response |-> <<>>, exc |-> "none", result |-> <<>>,
           sent |-> <<>>, startLen |-> 0, fetchLen |-> 0,
           resetDuring |-> FALSE, afterReset |-> "no",
           deleted |-> FALSE, escaped |-> "none", pmRaised |-> FALSE]

\* how the /reset of u ended, "no" when none is on record
ClearedHow(u) ==
    IF \E c \in cleared : c[1] = u
    THEN (CHOOSE c \in cleared : c[1] = u)[2]
    ELSE "no"

CallIdle == [tool |-> "none"]
FmtIdle  == [input |-> <<>>, done |-> FALSE, output |-> <<>>]

Init ==
    /\ env = [weather |-> "key", news |-> "None"]
    /\ user_memories = <<>>
    /\ heap = <<>>
    /\ tg = TgIdle
    /\ cleared = {}
    /\ wiped = {}
    /\ nMessages = 0
    /\ nCommands = 0
    /\ call = CallIdle
    /\ fmt = FmtIdle

\* update.message.reply_text(text): Telegram rejects an empty text
\* (BadRequest), and the handler ends with that exception.
ReplyText(t, text) ==
    IF text = <<>>
    THEN [t EXCEPT !.escaped = "BadRequest", !.pc = "done"]
    ELSE [t EXCEPT !.sent = Append(@, text), !.pc = "done"]

\* The try block raises: the except clause takes it, or it leaves
\* process_message.
Raise(t, class) ==
    IF CaughtByExcept(class)
    THEN [t EXCEPT !.exc = class, !.pc = "except",
                   !.iterations = 0, !.steps = <<>>, !.chat_history = <<>>]
    ELSE [t EXCEPT !.exc = class, !.pc = "done", !.escaped = class,
                   !.pmRaised = TRUE,
                   !.iterations = 0, !.steps = <<>>, !.chat_history = <<>>]

\* The dispatcher hands a text message to message_handler (lines 241-244).
MessageStart(u, text) ==
    /\ tg.pc = "idle"
    /\ nMessages < MaxMessages
    /\ nMessages' = nMessages + 1
    /\ tg' = [TgIdle EXCEPT !.pc = "typing", !.kind = "message",
                            !.user = u, !.text = text]
    /\ UNCHANGED <<env, user_memories, heap, cleared, wiped, nCommands, call, fmt>>

\* send_chat_action (line 247), then process_message is entered.
SendTyping ==
    /\ tg.pc = "typing"
    /\ tg' = [tg EXCEPT !.pc = "gm_test",
                        !.startLen = Len(HistoryOf(tg.user)),
                        !.resetDuring = FALSE]
    /\ UNCHANGED <<env, user_memories, heap, cleared, wiped, nMessages, nCommands, call, fmt>>

\* get_or_create_memory, line 72: user_id not in user_memories
GmTest ==
    /\ tg.pc = "gm_test"
    /\ tg' = [tg EXCEPT !.pc = IF tg.user \notin DOMAIN user_memories
                              THEN "gm_insert" ELSE "gm_return"]
    /\ UNCHANGED <<env, user_memories, heap, cleared, wiped, nMessages, nCommands, call, fmt>>

\* lines 74-76: user_memories[user_id] = ConversationBufferMemory(...)
GmInsert ==
    /\ tg.pc = "gm_insert"
    /\ LET o == NewObject
           memories == [v \in (DOMAIN user_memories) \cup {tg.user} |->
                           IF v = tg.user THEN o ELSE user_memories[v]]
       IN /\ user_memories' = memories
          /\ heap' = Collect(memories, (o :> <<>>) @@ heap, {tg.memory})
    /\ tg' = [tg EXCEPT !.pc = "gm_return"]
    /\ UNCHANGED <<env, cleared, wiped, nMessages, nCommands, call, fmt>>

\* line 77: return user_memories[user_id]; KeyError when the key is gone.
\* Then the history is rendered (lines 178-181) and the executor built.
GmReturn ==
    /\ tg.pc = "gm_return"
    /\ IF tg.user \in DOMAIN user_memories
       THEN /\ tg' = [tg EXCEPT !.pc = "reasoning",
                                !.memory = user_memories[tg.user],
                                !.chat_history =
                                    ChatHistory(heap[user_memories[tg.user]]),
                                !.fetchLen = Len(heap[user_memories[tg.user]]),
                                !.afterReset = ClearedHow(tg.user)]
            /\ cleared' = {c \in cleared : c[1] # tg.user}
            /\ wiped' = wiped \ {tg.user}
       ELSE /\ tg' = Raise(tg, "KeyError")
            /\ UNCHANGED <<cleared, wiped>>
    /\ UNCHANGED <<env, user_memories, heap, nMessages, nCommands, call, fmt>>

\* invoke returns (line 195): response = agent_response["output"]; the
\* executor's own locals are gone.
ExecutorReturn(t, output) ==
    [t EXCEPT !.response = output, !.pc = "add_user",
              !.iterations = 0, !.steps = <<>>, !.chat_history = <<>>]

\* One cycle of the executor's loop: the model is called and emits a
\* final answer, an action, or text that is neither; or the call fails.
AgentFinal ==
    /\ tg.pc = "reasoning"
    /\ ShouldContinue(tg.iterations)
    /\ \E out \in AgentOutputs :
          tg' = ExecutorReturn(tg, out)
    /\ UNCHANGED <<env, user_memories, heap, cleared, wiped, nMessages, nCommands, call, fmt>>

AgentAction ==
    /\ tg.pc = "reasoning"
    /\ ShouldContinue(tg.iterations)
    /\ \E tool \in Catalog, geo \in PipelineGeo, wx \in PipelineWx,
          news \in PipelineNews :
          LET r == RunTool(tool, <<"Madrid">>, geo, wx, news)
          IN tg' = IF r.raised
                   THEN Raise(tg, "ToolError")
                   ELSE [tg EXCEPT
                            !.steps = Append(@, [kind |-> "tool",
                                                 tool |-> tool,
                                                 observation |-> r.text]),
                            !.iterations = @ + 1]
    /\ UNCHANGED <<env, user_memories, heap, cleared, wiped, nMessages, nCommands, call, fmt>>

AgentInvalidTool ==
    /\ tg.pc = "reasoning"
    /\ ShouldContinue(tg.iterations)
    /\ tg' = [tg EXCEPT
                !.steps = Append(@, [kind |-> "invalid_tool",
                                     tool |-> "get_stocks",
                                     observation |-> InvalidToolObservation]),
                !.iterations = @ + 1]
    /\ UNCHANGED <<env, user_memories, heap, cleared, wiped, nMessages, nCommands, call, fmt>>

\* the output is neither an action nor a final answer: the parser's
\* exception is turned into an observation (handle_parsing_errors), or
\* raised as a ValueError when the executor is not told to handle it
AgentParseError ==
    /\ tg.pc = "reasoning"
    /\ ShouldContinue(tg.iterations)
    /\ tg' = IF handle_parsing_errors
             THEN [tg EXCEPT
                     !.steps = Append(@, [kind |-> "parse_error",
                                          tool |-> "_Exception",
                                          observation |-> ParseErrorObservation]),
                     !.iterations = @ + 1]
             ELSE Raise(tg, "ValueError")
    /\ UNCHANGED <<env, user_memories, heap, cleared, wiped, nMessages, nCommands, call, fmt>>

\* the model provider is unavailable: llm raises
AgentModelError ==
    /\ tg.pc = "reasoning"
    /\ ShouldContinue(tg.iterations)
    /\ tg' = Raise(tg, "LLMError")
    /\ UNCHANGED <<env, user_memories, heap, cleared, wiped, nMessages, nCommands, call, fmt>>

\* the loop ends at the cap: return_stopped_response("force")
AgentForcedStop ==
    /\ tg.pc = "reasoning"
    /\ ~ShouldContinue(tg.iterations)
    /\ tg' = ExecutorReturn(tg, ForcedStopOutput)
    /\ UNCHANGED <<env, user_memories, heap, cleared, wiped, nMessages, nCommands, call, fmt>>

\* line 199
AddUserMessage ==
    /\ tg.pc = "add_user"
    /\ heap' = [heap EXCEPT ![tg.memory] = add_user_message(@, tg.text)]
    /\ tg' = [tg EXCEPT !.pc = "add_ai"]
    /\ UNCHANGED <<env, user_memories, cleared, wiped, nMessages, nCommands, call, fmt>>

\* line 200
AddAIMessage ==
    /\ tg.pc = "add_ai"
    /\ heap' = [heap EXCEPT ![tg.memory] = add_ai_message(@, tg.response)]
    /\ tg' = [tg EXCEPT !.pc = "format"]
    /\ UNCHANGED <<env, user_memories, cleared, wiped, nMessages, nCommands, call, fmt>>

\* lines 203-205: process_message returns the formatted response
FormatAndReturn ==
    /\ tg.pc = "format"
    /\ tg' = [tg EXCEPT !.result = format_sarcastic_response(tg.response),
                        !.pc = "reply"]
    /\ UNCHANGED <<env, user_memories, heap, cleared, wiped, nMessages, nCommands, call, fmt>>

\* lines 207-209: process_message returns the apology
ExceptAndReturn ==
    /\ tg.pc = "except"
    /\ tg' = [tg EXCEPT !.result = Apology, !.pc = "reply"]
    /\ UNCHANGED <<env, user_memories, heap, cleared, wiped, nMessages, nCommands, call, fmt>>

\* line 253: reply_text(response, parse_mode='Markdown')
SendReply ==
    /\ tg.pc = "reply"
    /\ tg' = ReplyText(tg, tg.result)
    /\ UNCHANGED <<env, user_memories, heap, cleared, wiped, nMessages, nCommands, call, fmt>>

\* The handler is over (it returned, or its exception went to the
\* dispatcher, which logs it); its locals are dropped.
HandlerEnd ==
    /\ tg.pc = "done"
    /\ tg' = TgIdle
    /\ heap' = Collect(user_memories, heap, {})
    /\ cleared' = IF tg.kind = "reset"
                  THEN {c \in cleared : c[1] # tg.user}
                       \cup {<<tg.user,
                               IF tg.escaped # "none" THEN "raced"
                               ELSE IF tg.deleted THEN "deleted"
                               ELSE "nothing">>}
                  ELSE cleared
    /\ UNCHANGED <<env, user_memories, wiped, nMessages, nCommands, call, fmt>>

\* start_command (lines 212-215)
StartCommand(u) ==
    /\ tg.pc = "idle"
    /\ nCommands < MaxCommands
    /\ nCommands' = nCommands + 1
    /\ tg' = ReplyText([TgIdle EXCEPT !.kind = "start", !.user = u],
                       <<"Hola! Soy Cristobal, tu asistente.">>)
    /\ UNCHANGED <<env, user_memories, heap, cleared, wiped, nMessages, call, fmt>>

\* help_command (lines 226-237)
HelpCommand(u) ==
    /\ tg.pc = "idle"
    /\ nCommands < MaxCommands
    /\ nCommands' = nCommands + 1
    /\ tg' = ReplyText([TgIdle EXCEPT !.kind = "help", !.user = u],
                       <<"Comandos disponibles: /start /reset /help">>)
    /\ UNCHANGED <<env, user_memories, heap, cleared, wiped, nMessages, call, fmt>>

\* reset_command, lines 219-220 and 223-224: the membership test, and
\* the reply when there is nothing to delete
ResetTest(u) ==
    /\ tg.pc = "idle"
    /\ nCommands < MaxCommands
    /\ nCommands' = nCommands + 1
    /\ tg' = IF u \in DOMAIN user_memories
             THEN [TgIdle EXCEPT !.kind = "reset", !.user = u,
                                 !.pc = "rc_del"]
             ELSE ReplyText([TgIdle EXCEPT !.kind = "reset", !.user = u],
                            <<"No hay conversacion que borrar.">>)
    /\ UNCHANGED <<env, user_memories, heap, cleared, wiped, nMessages, call, fmt>>

\* lines 221-222: del user_memories[user_id], KeyError when the key is
\* gone, then the reply
ResetDelete ==
    /\ tg.pc = "rc_del"
    /\ IF tg.user \in DOMAIN user_memories
       THEN LET memories == DeleteMemory(user_memories, tg.user)
            IN /\ user_memories' = memories
               /\ heap' = Collect(memories, heap, {})
               /\ tg' = ReplyText([tg EXCEPT !.deleted = TRUE],
                                  <<"He olvidado nuestra conversacion anterior.">>)
       ELSE /\ tg' = [tg EXCEPT !.escaped = "KeyError", !.pc = "done"]
            /\ UNCHANGED <<user_memories, heap>>
    /\ UNCHANGED <<env, cleared, wiped, nMessages, nCommands, call, fmt>>

(***************************************************************************)
(* Flask thread                                                            *)
(***************************************************************************)

\* reset_conversations (lines 255-260)
ResetConversations ==
    /\ LET after == ResetAll(user_memories, heap)
       IN /\ user_memories' = after[1]
          /\ heap' = Collect(after[1], after[2], {tg.memory})
    /\ wiped' = Users
    /\ tg' = IF tg.pc = "idle" THEN tg ELSE [tg EXCEPT !.resetDuring = TRUE]
    /\ UNCHANGED <<env, cleared, nMessages, nCommands, call, fmt>>

Next ==
    \/ \E u \in Users, text \in Texts : MessageStart(u, text)
    \/ SendTyping
    \/ GmTest
    \/ GmInsert
    \/ GmReturn
    \/ AgentFinal
    \/ AgentAction
    \/ AgentInvalidTool
    \/ AgentParseError
    \/ AgentModelError
    \/ AgentForcedStop
    \/ AddUserMessage
    \/ AddAIMessage
    \/ FormatAndReturn
    \/ ExceptAndReturn
    \/ SendReply
    \/ HandlerEnd
    \/ \E u \in Users : StartCommand(u)
    \/ \E u \in Users : HelpCommand(u)
    \/ \E u \in Users : ResetTest(u)
    \/ ResetDelete
    \/ ResetConversations

Spec == Init /\ [][Next]_vars

(***************************************************************************)
(* The tool functions alone: the keys the environment may hold, then one   *)
(* call of one tool with any input and any provider outcome.               *)
(***************************************************************************)

\* locations, queries and URLs, the empty string among them
ToolInputs == {<<>>, <<"Madrid">>}

Optionals == {"None", "es"}

RECURSIVE SeqsUpTo(_, _)
\* the sequences over S of length at most n
SeqsUpTo(S, n) ==
    IF n = 0 THEN {<<>>}
    ELSE LET shorter == SeqsUpTo(S, n - 1)
         IN shorter \cup {Append(q, x) : q \in shorter, x \in S}

NewsResponses ==
    {[kind |-> k] : k \in {"network_error", "http_error", "bad_json",
                           "not_object"}}
    \cup [kind : {"body"}, total : {-1, 0, 2},
          articles : SeqsUpTo(ArticleShapes, MaxArticles)]

SearchOutcomes ==
    {[kind |-> "error"]}
    \cup [kind : {"results"}, results : SeqsUpTo(ResultShapes, MaxArticles)]

\* lines of soup.get_text()
PageLines == {<<>>, <<" ">>, <<"a">>, <<" ", "a", " ", " ", "b", " ">>}

WebpageOutcomes ==
    {[kind |-> k] : k \in {"network_error", "http_error"}}
    \cup [kind : {"page"}, lines : SeqsUpTo(PageLines, MaxLines)]

MaxLengths == {0, 2, 1000}

InitTools ==
    /\ env \in [weather : KeyValues, news : KeyValues]
    /\ user_memories = <<>>
    /\ heap = <<>>
    /\ tg = TgIdle
    /\ cleared = {}
    /\ wiped = {}
    /\ nMessages = 0
    /\ nCommands = 0
    /\ call = CallIdle
    /\ fmt = FmtIdle

CallWeather ==
    /\ call.tool = "none"
    /\ \E location \in ToolInputs, geo \in GeoKinds, wx \in WeatherResponses :
          call' = [tool |-> "get_weather", input |-> location,
                   geo |-> geo, response |-> wx,
                   result |-> get_weather(env.weather, location, geo, wx)]
    /\ UNCHANGED <<env, user_memories, heap, tg, cleared, wiped, nMessages,
                   nCommands, fmt>>

CallNews ==
    /\ call.tool = "none"
    /\ \E query \in ToolInputs, category \in Optionals, country \in Optionals,
          resp \in NewsResponses :
          call' = [tool |-> "get_news", input |-> query,
                   category |-> category, country |-> country,
                   response |-> resp,
                   result |-> get_news(env.news, query, category, country,
                                       resp)]
    /\ UNCHANGED <<env, user_memories, heap, tg, cleared, wiped, nMessages,
                   nCommands, fmt>>

CallSearch ==
    /\ call.tool = "none"
    /\ \E query \in ToolInputs, outcome \in SearchOutcomes :
          call' = [tool |-> "search_internet", input |-> query,
                   response |-> outcome,
                   result |-> search_internet(query, outcome)]
    /\ UNCHANGED <<env, user_memories, heap, tg, cleared, wiped, nMessages,
                   nCommands, fmt>>

CallWebpage ==
    /\ call.tool = "none"
    /\ \E url \in ToolInputs, max_length \in MaxLengths,
          outcome \in WebpageOutcomes :
          call' = [tool |-> "get_webpage_content", input |-> url,
                   max_length |-> max_length, response |-> outcome,
                   result |-> get_webpage_content(url, max_length, outcome)]
    /\ UNCHANGED <<env, user_memories, heap, tg, cleared, wiped, nMessages,
                   nCommands, fmt>>

NextTools == CallWeather \/ CallNews \/ CallSearch \/ CallWebpage

SpecTools == InitTools /\ [][NextTools]_vars

(***************************************************************************)
(* The formatter alone: every input built from at most MaxChunks chunks,   *)
(* then one application of format_sarcastic_response.                      *)
(***************************************************************************)

\* "<sarcasm": an opening tag that lacks its ">"
PartialTag == <<"<", "s", "a", "r", "c", "a", "s", "m">>

FmtChunks == <<OpenTag, CloseTag, PartialTag, <<">">>, <<" ">>, <<"\n">>>>

FmtInputs ==
    UNION {{Flatten([k \in 1..n |-> FmtChunks[f[k]]]) :
                f \in [1..n -> 1..Len(FmtChunks)]} : n \in 0..MaxChunks}

InitFormat ==
    /\ env = [weather |-> "key", news |-> "None"]
    /\ user_memories = <<>>
    /\ heap = <<>>
    /\ tg = TgIdle
    /\ cleared = {}
    /\ wiped = {}
    /\ nMessages = 0
    /\ nCommands = 0
    /\ call = CallIdle
    /\ fmt \in {[input |-> i, done |-> FALSE, output |-> <<>>] :
                    i \in FmtInputs}

FormatResponse ==
    /\ ~fmt.done
    /\ fmt' = [fmt EXCEPT !.done = TRUE,
                          !.output = format_sarcastic_response(fmt.input)]
    /\ UNCHANGED <<env, user_memories, heap, tg, cleared, wiped, nMessages,
                   nCommands, call>>

NextFormat == FormatResponse

SpecFormat == InitFormat /\ [][NextFormat]_vars

(***************************************************************************)
(* Properties                                                              *)
(***************************************************************************)

\* A step of the Telegram thread (the Flask thread only notes its reset
\* in resetDuring).
TelegramStep == [tg' EXCEPT !.resetDuring = tg.resetDuring] # tg

\* process_message returns its formatted response (line 205).
ProcessMessageCompletes == tg.pc = "format" /\ tg'.pc = "reply"

\* h ends with the human turn and then the assistant turn of the request
EndsWithExchange(h) ==
    /\ Len(h) >= 2
    /\ h[Len(h) - 1] = HumanTurn(tg.text)
    /\ h[Len(h)] = AITurn(tg.response)

\* C1 as stated: when process_message(u, H) completes with agent output
\* A, the history stored for u ends with the human turn H followed by the
\* assistant turn A and is two longer than when the request started.
C1_StoredHistoryEndsWithExchange ==
    [][ProcessMessageCompletes =>
          /\ EndsWithExchange(HistoryOf(tg.user)')
          /\ Len(HistoryOf(tg.user)') = tg.startLen + 2]_vars

\* C1 amended: when process_message(u, H) completes with agent output A,
\* the history it fetched ends with the human turn H followed by the
\* assistant turn A and is two longer than when it was fetched; and when
\* the reset endpoint did not run during the request, that history is the
\* one stored for u and is two longer than when the request started.
C1_FetchedHistoryEndsWithExchange ==
    [][ProcessMessageCompletes =>
          /\ EndsWithExchange(heap'[tg.memory])
          /\ Len(heap'[tg.memory]) = tg.fetchLen + 2
          /\ ~tg.resetDuring =>
                /\ tg.user \in DOMAIN user_memories'
                /\ user_memories'[tg.user] = tg.memory
                /\ Len(HistoryOf(tg.user)') = tg.startLen + 2]_vars

\* A request that found an earlier exchange has completed, no reset in
\* between.
C1_Witness ==
    /\ tg.kind = "message" /\ tg.pc = "reply" /\ tg.exc = "none"
    /\ ~tg.resetDuring
    /\ tg.fetchLen = 2
    /\ Len(HistoryOf(tg.user)) = 4

\* A step of reset_command
ResetCommandStep ==
    /\ TelegramStep
    /\ \/ tg.pc = "idle" /\ tg'.kind = "reset"
       \/ tg.kind = "reset"

\* C2: the /reset of u followed by get_or_create_memory(u) yields an
\* empty history, and no step of the /reset of u changes the history of
\* another user or whether that user has one.
C2_ResetIsPerUser ==
    [][/\ ResetCommandStep =>
             \A v \in Users \ {tg'.user, tg.user} :
                /\ (v \in DOMAIN user_memories') = (v \in DOMAIN user_memories)
                /\ HistoryOf(v)' = HistoryOf(v)
       /\ (tg.pc = "gm_return" /\ tg'.pc = "reasoning"
           /\ ClearedHow(tg.user) # "no") =>
             heap'[tg'.memory] = <<>>]_vars

\* u had a history, /reset deleted it, and get_or_create_memory(u) has
\* returned since, while another user's history is still there.
C2_Witness ==
    /\ tg.kind = "message" /\ tg.pc = "reasoning"
    /\ tg.afterReset = "deleted"
    /\ heap[tg.memory] = <<>>
    /\ \E v \in Users \ {tg.user} : HistoryOf(v) # <<>>

\* C3: once the reset endpoint has run, get_or_create_memory(u) yields an
\* empty history for every user u for whom it has not returned since,
\* the users with a request in flight at the reset included.
C3_ResetAllEmptiesEveryHistory ==
    \A u \in wiped : HistoryOf(u) = <<>>

\* A request that had fetched its history before the reset has appended
\* its turns after it.
C3_Witness ==
    /\ tg.kind = "message" /\ tg.pc = "reply" /\ tg.exc = "none"
    /\ tg.resetDuring
    /\ tg.user \in wiped
    /\ Len(heap[tg.memory]) = 4

\* C4 as stated: get_or_create_memory has no error outcome, whatever the
\* reset endpoint does between its steps: no request ends in the KeyError
\* of its lookup.
C4_GetOrCreateNeverFails ==
    ~(tg.kind = "message" /\ tg.exc = "KeyError")

\* C5: process_message never raises to its caller; when a step of it
\* failed it returns exactly the apology, and otherwise the formatted
\* output of the agent.
C5_AlwaysReturnsAString ==
    /\ (tg.kind = "message" /\ tg.pc = "reply") =>
          IF tg.exc # "none"
          THEN tg.result = Apology
          ELSE tg.result = format_sarcastic_response(tg.response)
    /\ ~tg.pmRaised

\* The model provider failed and the apology is about to be sent.
C5_Witness ==
    /\ tg.kind = "message" /\ tg.pc = "reply"
    /\ tg.exc = "LLMError"
    /\ tg.result = Apology

\* A step of the executor's loop
LoopStep ==
    \/ AgentFinal \/ AgentAction \/ AgentInvalidTool \/ AgentParseError
    \/ AgentModelError \/ AgentForcedStop

\* C6: the reasoning loop runs at most max_iterations cycles: every step
\* of it either leaves the loop or adds one cycle, a step is always
\* possible, the count never passes the cap, and at the cap the only step
\* is the forced stop, which returns the non-empty fallback.
C6_LoopIsBounded ==
    [][tg.pc = "reasoning" =>
          /\ tg.iterations <= max_iterations
          /\ Len(tg.steps) = tg.iterations
          /\ ENABLED LoopStep
          /\ TelegramStep =>
                /\ tg'.pc # "reasoning" \/ tg'.iterations = tg.iterations + 1
                /\ tg.iterations = max_iterations =>
                      /\ tg'.pc = "add_user"
                      /\ tg'.response = ForcedStopOutput
                      /\ tg'.response # <<>>]_vars

\* Three cycles gave no final answer and the loop was stopped.
C6_Witness ==
    /\ tg.pc = "add_user"
    /\ tg.response = ForcedStopOutput

\* A delimited segment of s: an opening tag at i and the first closing
\* tag after it at j, whatever lies between, newlines included
IsSegment(s, i, j) ==
    /\ HasAt(s, i, OpenTag)
    /\ j >= i + Len(OpenTag)
    /\ HasAt(s, j, CloseTag)
    /\ \A k \in (i + Len(OpenTag))..(j - 1) : ~HasAt(s, k, CloseTag)

SegmentCandidates(s) ==
    LET opens  == {i \in 1..Len(s) : HasAt(s, i, OpenTag)}
        closes == {j \in 1..Len(s) : HasAt(s, j, CloseTag)}
    IN {c \in opens \X closes : IsSegment(s, c[1], c[2])}

\* the positions a segment takes up, its tags included
Span(c) == c[1]..(c[2] + Len(CloseTag) - 1)

\* The segments of s in order of appearance: no two overlap, and every
\* delimited segment is one of them or starts inside one of them.
Segments(s) ==
    CHOOSE M \in SUBSET SegmentCandidates(s) :
        /\ \A c, d \in M : c # d => Span(c) \cap Span(d) = {}
        /\ \A c \in SegmentCandidates(s) :
              c \in M \/ \E d \in M : d[1] < c[1] /\ c[1] \in Span(d)

RECURSIVE Keep(_, _, _)
\* the characters of s at the positions p.. that are not in taken
Keep(s, taken, p) ==
    IF p > Len(s) THEN <<>>
    ELSE (IF p \in taken THEN <<>> ELSE <<s[p]>>) \o Keep(s, taken, p + 1)

\* the primary answer: s without its segments, trimmed
Primary(s) ==
    Strip(Keep(s, UNION {Span(c) : c \in Segments(s)}, 1))

RECURSIVE Asides(_, _)
\* every segment of M, trimmed and marked, in order of appearance
Asides(s, M) ==
    IF M = {} THEN <<>>
    ELSE LET c == CHOOSE c \in M : \A d \in M : c[1] <= d[1]
         IN AsidePrefix
            \o Strip(SubSeq(s, c[1] + Len(OpenTag), c[2] - 1))
            \o AsideSuffix
            \o Asides(s, M \ {c})

\* C7 as stated: the output is the input without its segments, trimmed,
\* followed by every segment trimmed and marked, in order of appearance
\* (the trimmed input when there is no segment), and the primary part of
\* the output holds no delimited segment.
C7_PrimaryHoldsNoSegment ==
    fmt.done =>
        /\ fmt.output = Primary(fmt.input)
                        \o Asides(fmt.input, Segments(fmt.input))
        /\ SegmentCandidates(Primary(fmt.input)) = {}

\* C7 amended: the output is the input without its segments, trimmed,
\* followed by every segment trimmed and marked, in order of appearance,
\* and it is the trimmed input when there is no segment.  (The primary
\* part may hold a segment that the removal of another put together.)
C7_FormatSplitsAsides ==
    fmt.done =>
        /\ fmt.output = Primary(fmt.input)
                        \o Asides(fmt.input, Segments(fmt.input))
        /\ SegmentCandidates(fmt.input) = {} => fmt.output = Strip(fmt.input)

\* An input with two segments, one of them over a line break, formatted.
C7_Witness ==
    /\ fmt.done
    /\ Cardinality(Segments(fmt.input)) = 2
    /\ \E c \in Segments(fmt.input) :
          \E k \in (c[1] + Len(OpenTag))..(c[2] - 1) : fmt.input[k] = "\n"
    /\ Len(Primary(fmt.input)) > 0

\* no key is configured: the variable is unset or empty
NotConfigured(key) == key \in {"None", ""}

\* C8: get_weather and get_news without their API key return their
\* fixed unavailability string for every input and issue no request.
C8_NoKeyNoRequest ==
    /\ (call.tool = "get_weather" /\ NotConfigured(env.weather)) =>
          call.result = [raised |-> FALSE, text |-> WeatherUnavailable,
                         requests |-> <<>>]
    /\ (call.tool = "get_news" /\ NotConfigured(env.news)) =>
          call.result = [raised |-> FALSE, text |-> NewsUnavailable,
                         requests |-> <<>>]

\* get_news was called with a query while NEWS_API_KEY is set to nothing.
C8_Witness ==
    /\ call.tool = "get_news"
    /\ env.news = ""
    /\ call.input # <<>>
    /\ call.result.text = NewsUnavailable

\* C9: whatever the provider does, every tool function returns a
\* non-empty string and raises nothing; an empty provider result gives
\* the "not found" / "no results" message.
C9_ToolsAlwaysReturnText ==
    call.tool # "none" =>
        /\ ~call.result.raised
        /\ call.result.text # <<>>
        /\ (call.tool = "get_weather" /\ ~NotConfigured(env.weather)
            /\ call.geo = "empty") =>
              call.result.text = <<"Could not find the location: ">>
                                 \o call.input
        /\ (call.tool = "get_news" /\ ~NotConfigured(env.news)
            /\ call.response.kind = "body" /\ call.response.total = 0) =>
              call.result.text = <<"No se encontraron noticias para '">>
                                 \o call.input \o <<"'">>
        /\ (call.tool = "search_internet"
            /\ call.response.kind = "results"
            /\ call.response.results = <<>>) =>
              call.result.text =
                  <<"No se encontraron resultados para la busqueda: '">>
                  \o call.input \o <<"'">>

\* get_news met a body whose article has a null source and returned its
\* error text.
C9_Witness ==
    /\ call.tool = "get_news"
    /\ env.news = "key"
    /\ call.response.kind = "body"
    /\ call.response.total = 2
    /\ \E n \in 1..Len(call.response.articles) :
          call.response.articles[n] = "null_source"
    /\ ~call.result.raised
    /\ call.result.text # <<>>

\* C10 as stated: when message_handler is over, its sender has received
\* exactly one reply, and that reply is not empty.
C10_EveryMessageIsAnswered ==
    (tg.kind = "message" /\ tg.pc = "done") =>
        /\ Len(tg.sent) = 1
        /\ tg.sent[1] # <<>>

\* A cycle in which the model's output could not be parsed, or named a
\* tool that is not in the catalog
RecoverableCycle == AgentParseError \/ AgentInvalidTool

\* the kinds of step such a cycle leaves in the transcript
RecoveredKinds == {"parse_error", "invalid_tool"}

\* C11: output of the model that cannot be parsed, or that names a tool
\* absent from the catalog, does not end the run and raises nothing: the
\* cycle adds one step with a non-empty corrective observation to the
\* transcript, the loop is in Reasoning again, and the cycle is counted
\* against the cap of max_iterations like any other (after the last one
\* allowed only the forced stop is left); below the cap both kinds of
\* cycle are possible.
C11_BadOutputIsRecoverable ==
    [][/\ RecoverableCycle =>
             /\ tg'.pc = "reasoning"
             /\ tg'.exc = "none" /\ tg'.escaped = "none" /\ ~tg'.pmRaised
             /\ Len(tg'.steps) = Len(tg.steps) + 1
             /\ SubSeq(tg'.steps, 1, Len(tg.steps)) = tg.steps
             /\ tg'.steps[Len(tg'.steps)].kind \in RecoveredKinds
             /\ tg'.steps[Len(tg'.steps)].observation # <<>>
             /\ tg'.iterations = tg.iterations + 1
             /\ tg'.iterations <= max_iterations
             /\ tg'.iterations = max_iterations =>
                   (ENABLED AgentForcedStop)' /\ ~(ENABLED RecoverableCycle)'
       /\ (tg.pc = "reasoning" /\ tg.iterations < max_iterations) =>
             /\ ENABLED AgentParseError
             /\ ENABLED AgentInvalidTool]_vars

\* The cap was used up by cycles of both kinds, none of them a tool call.
C11_Witness ==
    /\ tg.pc = "reasoning"
    /\ tg.iterations = max_iterations
    /\ \A n \in 1..Len(tg.steps) : tg.steps[n].kind \in RecoveredKinds
    /\ \E n \in 1..Len(tg.steps) : tg.steps[n].kind = "parse_error"
    /\ \E n \in 1..Len(tg.steps) : tg.steps[n].kind = "invalid_tool"

\* h has even length and alternates human turn, assistant turn, the
\* first one a human turn
Alternates(h) ==
    /\ Len(h) % 2 = 0
    /\ \A n \in 1..Len(h) :
          h[n].role = (IF n % 2 = 1 THEN "human" ELSE "ai")

\* the histories in the store
StoredHistories == {heap[user_memories[u]] : u \in DOMAIN user_memories}

\* a process_message call is between its two appends (lines 199, 200)
BetweenAppends == tg.pc = "add_ai"

\* a step of a process_message call for tg.user
ProcessMessageStep ==
    /\ TelegramStep
    /\ tg.kind = "message"
    /\ tg.pc \notin {"typing", "reply", "done"}

\* the call changes no history but the one it fetched: the other objects
\* keep their turns, and the other users keep their entries
OthersUntouched ==
    /\ \A o \in (DOMAIN heap) \ {tg.memory} :
          o \in DOMAIN heap' /\ heap'[o] = heap[o]
    /\ \A v \in Users \ {tg.user} :
          /\ (v \in DOMAIN user_memories') = (v \in DOMAIN user_memories)
          /\ v \in DOMAIN user_memories =>
                user_memories'[v] = user_memories[v]

\* the part of C12 that is about calls: one that ends with the apology
\* has appended no turn (the history it fetched, if it got that far, is
\* as long as it was, and no step after the failure changes a history),
\* and a call for u changes no history other than u's
CallsKeepToTheirHistory ==
    [][/\ (tg.kind = "message" /\ tg.exc # "none") =>
             /\ tg.memory # 0 => Len(heap[tg.memory]) = tg.fetchLen
             /\ tg.pc \in {"reply", "done"} => tg.result = Apology
             /\ TelegramStep =>
                   \A o \in DOMAIN heap :
                      o \in DOMAIN heap' => heap'[o] = heap[o]
       /\ ProcessMessageStep =>
             /\ OthersUntouched
             /\ (tg.memory # 0 /\ tg.memory \in DOMAIN heap') =>
                   \/ heap'[tg.memory] = heap[tg.memory]
                   \/ /\ Len(heap'[tg.memory]) = Len(heap[tg.memory]) + 1
                      /\ SubSeq(heap'[tg.memory], 1, Len(heap[tg.memory]))
                            = heap[tg.memory]]_vars

\* C12 as stated: in every reachable state every history in the store
\* has even length and alternates human turn, assistant turn; a
\* process_message call that ends with the apology appends no turn, and
\* a call for u changes no history other than u's.
C12_HistoriesAlternateAlways ==
    /\ [](\A h \in StoredHistories : Alternates(h))
    /\ CallsKeepToTheirHistory

\* C12 amended: in every reachable state in which no process_message
\* call is between its two appends, every history in the store has even
\* length and alternates human turn, assistant turn (between the two
\* appends the history of the call's user ends with the human turn
\* alone); a call that ends with the apology appends no turn, and a call
\* for u changes no history other than u's.
C12_HistoriesAlternateBetweenCalls ==
    /\ [](\A h \in StoredHistories :
            \/ Alternates(h)
            \/ /\ BetweenAppends
               /\ tg.user \in DOMAIN user_memories
               /\ h = heap[user_memories[tg.user]]
               /\ user_memories[tg.user] = tg.memory
               /\ Alternates(SubSeq(h, 1, Len(h) - 1))
               /\ h[Len(h)] = HumanTurn(tg.text))
    /\ CallsKeepToTheirHistory

\* Two users have a stored exchange each, and a call for one of them,
\* made after that, has ended with the apology.
C12_Witness ==
    /\ tg.kind = "message" /\ tg.pc = "reply"
    /\ tg.result = Apology
    /\ tg.memory # 0
    /\ \A u \in Users : Len(HistoryOf(u)) >= 2

=============================================================================
